---- MODULE Spec2Model ----
(***************************************************************************)
(* The lending ledger of the Finance Dashboard: split saves with credit    *)
(* sweep (TransactionList.handleLendSave), the manual settle toggle and    *)
(* the bulk settlement waterfall (LendingDashboard), and the batched       *)
(* ledger update they all go through (App.handleUpdateTransaction).        *)
(*                                                                         *)
(* Money is an integer number of thousandths of the currency unit, so the  *)
(* program's tolerances 0.01 and 0.009 and a payment of half a cent are    *)
(* all exact; arithmetic is exact (binary floating point noise is not      *)
(* modelled). Dates are day numbers.                                       *)
(*                                                                         *)
(* The ledger (App's transactions) is the state. What the user has typed   *)
(* or selected in a modal when a handler runs (the split modal's mode and  *)
(* participant list, the person panel that is open, the amount in the      *)
(* Settle Up box) is an input of that handler's action.                    *)
(*                                                                         *)
(* The rule engine (App.applyRulesToTransaction) and the statement import  *)
(* (App.handleTransactionsParsed) have specifications of their own,        *)
(* RuleSpec and ImportSpec; ResolveSpec adds the duplicate review          *)
(* (App.handleDuplicateResolution) to the import, SplitSpec is one save    *)
(* of the split modal over every form it can hold, and NoSweepSpec is the  *)
(* ledger with the split saves that sweep no credit. Text that the code    *)
(* searches or compares                                                    *)
(* (descriptions, rule values) is a sequence of one-character strings;     *)
(* text it only copies or tests for equality (categories, tags) is a       *)
(* string. Confidence is a whole number 0..100.                            *)
(***************************************************************************)
EXTENDS Integers, Sequences, FiniteSets, TLC

VARIABLES
    transactions,    \* App state: the ledger, a sequence of Transaction
    opCount,         \* number of ledger operations performed so far
    lastOp,          \* history: the last ledger operation, its arguments, what
                     \* it found (was, amt) and the size of the batch it sent
    rules,           \* App state: the automation rules, a sequence of Rule
    potentialDuplicates,  \* App state: the DuplicatePairs awaiting review
    view             \* App state: the screen shown

vars == <<transactions, opCount, lastOp, rules, potentialDuplicates, view>>

----------------------------------------------------------------------------
(* Bounds and input sets *)

\* ledger operations (split saves, toggles, bulk settlements) in one run
MaxOps == 3

\* non-owner participants in the split modal
MaxPeople == 2

\* names typed into "Add person by name..."
Names == {"Alex", "Sam"}

\* amounts typed into the bulk "Settle Up" box: 0.005, 5.01, 20.00
PayAmounts == {5, 5010, 20000}

\* amounts typed into an exact-mode amount box: 0.01, 5.00
ExactAmounts == {10, 5000}

\* share weights typed into a shares-mode box
ShareChoices == {0, 2}

----------------------------------------------------------------------------
(* Values *)

Undefined == "undefined"
Today == "today"
NoPerson == "null"
UserId == 0

\* epsilon of the settled test, paidAmount >= amount - 0.01
SettledEps == 10
\* credit is swept only when surplus > 0.01
SweepEps == 10
\* the waterfall stops when remaining <= 0.009
StopEps == 9

NoSplit == [totalLent |-> 0, items |-> <<>>, splitType |-> "none", dateLent |-> Undefined]

HasSplit(tx) == tx.splitDetails.splitType # "none"

\* INITIAL_TRANSACTIONS, its first two entries (tx-1, tx-2)
INITIAL_TRANSACTIONS ==
    << [id |-> 1, date |-> 25, amount |-> 120500, status |-> "verified",
        isReviewed |-> FALSE, splitDetails |-> NoSplit],
       [id |-> 2, date |-> 24, amount |-> 15000, status |-> "verified",
        isReviewed |-> TRUE, splitDetails |-> NoSplit] >>

----------------------------------------------------------------------------
(* Sequence helpers *)

RECURSIVE SumSeq(_)
SumSeq(s) == IF s = <<>> THEN 0 ELSE Head(s) + SumSeq(Tail(s))

Indices(s) == 1..Len(s)

\* Array.prototype.findIndex: the first index whose element satisfies P, 0 if none
FindIndex(s, P(_)) ==
    IF \E i \in Indices(s) : P(s[i])
    THEN CHOOSE i \in Indices(s) : P(s[i]) /\ \A j \in 1..(i-1) : ~P(s[j])
    ELSE 0

Reverse(s) == [i \in Indices(s) |-> s[Len(s) + 1 - i]]

----------------------------------------------------------------------------
(* App.handleUpdateTransaction *)

\* new Map(updates.map(u => [u.id, u])).get(id): the last update with that id
UpdateFor(updates, id) ==
    LET hits == {i \in Indices(updates) : updates[i].id = id}
    IN  updates[CHOOSE i \in hits : \A j \in hits : j <= i]

\* a commit that applies only the first transaction of the batch
HandleUpdateTransactionFirstOnly(prev, updates) ==
    [i \in Indices(prev) |->
        IF updates # <<>> /\ updates[1].id = prev[i].id THEN updates[1] ELSE prev[i]]

\* prev.map(t => updateMap.get(t.id) || t); an empty batch changes nothing
HandleUpdateTransaction(prev, updates) ==
    [i \in Indices(prev) |->
        IF \E k \in Indices(updates) : updates[k].id = prev[i].id
        THEN UpdateFor(updates, prev[i].id)
        ELSE prev[i]]

----------------------------------------------------------------------------
(* LendingDashboard.handleSettleItem *)

\* a toggle that flips the flag and the date and leaves the money alone
SettleOneFlagOnly(item) ==
    [item EXCEPT !.isSettled = ~item.isSettled,
                 !.dateSettled = IF item.isSettled THEN Undefined ELSE Today]

\* a toggle that records the whole amount as paid now when it settles
SettleOneWholeAmount(item) ==
    LET isSettling == ~item.isSettled
    IN  [item EXCEPT
            !.isSettled = isSettling,
            !.paidAmount = IF isSettling THEN item.amount ELSE 0,
            !.dateSettled = IF isSettling THEN Today ELSE Undefined,
            !.payments = IF isSettling
                         THEN Append(item.payments, [amount |-> item.amount])
                         ELSE <<>>]

\* the map callback's result for the toggled item
SettleOne(item) ==
    LET isSettling == ~item.isSettled
        amountPaid == item.amount - item.paidAmount
    IN  [item EXCEPT
            !.isSettled = isSettling,
            !.paidAmount = IF isSettling THEN item.amount ELSE 0,
            !.dateSettled = IF isSettling THEN Today ELSE Undefined,
            !.payments = IF isSettling
                         THEN (IF amountPaid > 0
                               THEN Append(item.payments, [amount |-> amountPaid])
                               ELSE item.payments)
                         ELSE <<>>]

\* a toggle applied to every item of the transaction
SettleEveryItem(tx, itemId) ==
    [tx EXCEPT !.splitDetails.items =
        [k \in Indices(tx.splitDetails.items) |-> SettleOne(tx.splitDetails.items[k])]]

\* the transaction handed to onUpdateTransaction
SettleItemUpdate(tx, itemId) ==
    [tx EXCEPT !.splitDetails.items =
        [k \in Indices(tx.splitDetails.items) |->
            IF tx.splitDetails.items[k].id = itemId
            THEN SettleOne(tx.splitDetails.items[k])
            ELSE tx.splitDetails.items[k]]]

\* personHistory: for every transaction with an item named selectedPerson (in
\* ledger order) that transaction and its FIRST such item, then sorted by date,
\* newest first (Array.prototype.sort is stable)
RECURSIVE InsertByDateDesc(_, _, _)
InsertByDateDesc(txs, sorted, e) ==
    IF sorted = <<>> THEN <<e>>
    ELSE IF txs[Head(sorted).t].date >= txs[e.t].date
         THEN <<Head(sorted)>> \o InsertByDateDesc(txs, Tail(sorted), e)
         ELSE <<e>> \o sorted

RECURSIVE PersonHistoryFrom(_, _, _)
PersonHistoryFrom(txs, person, i) ==
    IF i = 0 THEN <<>>
    ELSE LET rest == PersonHistoryFrom(txs, person, i - 1)
             k == FindIndex(txs[i].splitDetails.items, LAMBDA it : it.name = person)
         IN  IF k = 0 THEN rest
             ELSE InsertByDateDesc(txs, rest, [t |-> i, k |-> k])

PersonHistory(txs, person) ==
    IF person = NoPerson THEN <<>> ELSE PersonHistoryFrom(txs, person, Len(txs))

\* totalOutstandingForPerson
TotalOutstandingForPerson(txs, person) ==
    LET h == PersonHistory(txs, person)
    IN  SumSeq([i \in Indices(h) |->
            txs[h[i].t].splitDetails.items[h[i].k].amount
            - txs[h[i].t].splitDetails.items[h[i].k].paidAmount])

\* sortedDebtors: the names the People list offers
Debtors(txs) ==
    UNION {{txs[t].splitDetails.items[k].name : k \in Indices(txs[t].splitDetails.items)} :
           t \in Indices(txs)}

\* the toggle button of item k of transaction t, in the Loan History list
\* or in the open person panel (which lists the person's personHistory rows)
HandleSettleItem(t, k) ==
    /\ opCount < MaxOps
    /\ HasSplit(transactions[t])
    /\ k \in Indices(transactions[t].splitDetails.items)
    /\ LET tx == transactions[t]
           item == tx.splitDetails.items[k]
       IN  /\ transactions' = HandleUpdateTransaction(transactions,
                                   <<SettleItemUpdate(tx, item.id)>>)
           \* was, amt: the item's isSettled and paidAmount before the toggle
           /\ lastOp' = [op |-> "settleItem", tx |-> t, id |-> item.id,
                         who |-> item.name, amt |-> item.paidAmount,
                         was |-> item.isSettled, batch |-> 1]
    /\ opCount' = opCount + 1
    /\ UNCHANGED <<rules, potentialDuplicates, view>>

----------------------------------------------------------------------------
(* LendingDashboard.handleBulkSettle *)

\* updatesMap, a Map keyed by transaction id, kept in insertion order
MapHas(m, id) == \E i \in Indices(m) : m[i].id = id
MapGet(m, id) == m[CHOOSE i \in Indices(m) : m[i].id = id]
MapSet(m, tx) ==
    IF MapHas(m, tx.id)
    THEN [i \in Indices(m) |-> IF m[i].id = tx.id THEN tx ELSE m[i]]
    ELSE Append(m, tx)

Max(a, b) == IF a >= b THEN a ELSE b
Min(a, b) == IF a <= b THEN a ELSE b

\* a walk that pays every entry its debt and nothing more
PayThisTxOwedOnly(item, remaining, isMostRecent) ==
    Min(remaining, Max(0, item.amount - item.paidAmount))

\* what the loop body decides to pay on one entry of relevantHistory
PayThisTx(item, remaining, isMostRecent) ==
    LET currentOwed == Max(0, item.amount - item.paidAmount)
        payOwed == IF currentOwed > 0 THEN Min(remaining, currentOwed) ELSE 0
    IN  IF isMostRecent /\ remaining > payOwed THEN remaining ELSE payOwed

\* a write-back that keeps only the Payment of this call
PaidItemLastPaymentOnly(currentItem, newPaidAmount, payThisTx) ==
    [currentItem EXCEPT
        !.paidAmount = newPaidAmount,
        !.isSettled = newPaidAmount >= currentItem.amount - SettledEps,
        !.payments = <<[amount |-> payThisTx]>>]

\* the item written back by the loop body
PaidItem(currentItem, newPaidAmount, payThisTx) ==
    LET isFullyPaid == newPaidAmount >= currentItem.amount - SettledEps
    IN  [currentItem EXCEPT
            !.paidAmount = newPaidAmount,
            !.isSettled = isFullyPaid,
            !.dateSettled = IF isFullyPaid /\ currentItem.dateSettled = Undefined
                            THEN Today ELSE currentItem.dateSettled,
            !.payments = Append(currentItem.payments, [amount |-> payThisTx])]

\* the for loop over relevantHistory, from entry i on
RECURSIVE SettleWalk(_, _, _, _, _)
SettleWalk(txs, hist, i, remaining, updatesMap) ==
    IF i > Len(hist) \/ remaining <= StopEps THEN updatesMap
    ELSE
        LET tx == txs[hist[i].t]
            item == tx.splitDetails.items[hist[i].k]
            \* personHistory[0] is the last entry of the reversed list
            isMostRecent == tx.id = txs[hist[Len(hist)].t].id
            payThisTx == PayThisTx(item, remaining, isMostRecent)
            txToUpdate == IF MapHas(updatesMap, tx.id) THEN MapGet(updatesMap, tx.id) ELSE tx
            itemIndex == FindIndex(txToUpdate.splitDetails.items, LAMBDA it : it.id = item.id)
            written ==
                IF itemIndex = 0 THEN txToUpdate
                ELSE [txToUpdate EXCEPT !.splitDetails.items[itemIndex] =
                        PaidItem(txToUpdate.splitDetails.items[itemIndex],
                                 item.paidAmount + payThisTx, payThisTx)]
        IN  IF payThisTx > 0
            THEN SettleWalk(txs, hist, i + 1, remaining - payThisTx, MapSet(updatesMap, written))
            ELSE SettleWalk(txs, hist, i + 1, remaining, updatesMap)

\* Array.from(updatesMap.values()) of handleBulkSettle
BulkSettleUpdates(txs, person, amountToPay) ==
    SettleWalk(txs, Reverse(PersonHistory(txs, person)), 1, amountToPay, <<>>)

\* the Settle Up button of selectedPerson's panel, amountToPay typed in the box
HandleBulkSettle(selected, amountToPay) ==
    /\ opCount < MaxOps
    /\ selected \in Debtors(transactions)
    \* the Settle Up box is rendered only while the person owes money
    /\ TotalOutstandingForPerson(transactions, selected) > SettledEps
    /\ amountToPay > 0
    /\ transactions' = HandleUpdateTransaction(transactions,
                            BulkSettleUpdates(transactions, selected, amountToPay))
    /\ lastOp' = [op |-> "bulkSettle", tx |-> 0, id |-> 0, who |-> selected,
                  amt |-> amountToPay, was |-> FALSE,
                  batch |-> Len(BulkSettleUpdates(transactions, selected, amountToPay))]
    /\ opCount' = opCount + 1
    /\ UNCHANGED <<rules, potentialDuplicates, view>>

----------------------------------------------------------------------------
(* TransactionList: the split modal *)

\* toFixed(2) then parseFloat of num/den (den > 0): the nearest cent, in thousandths
ToFixed2(num, den) == ((2 * num + 10 * den) \div (20 * den)) * 10

\* openLendModal: "You" first, then one participant per existing item
OpenLendModal(tx) ==
    LET existingItems == tx.splitDetails.items
    IN  <<[id |-> UserId, name |-> "You",
           amount |-> tx.amount - SumSeq([i \in Indices(existingItems) |-> existingItems[i].amount]),
           isSelected |-> TRUE, shares |-> 1]>>
        \o [i \in Indices(existingItems) |->
               [id |-> existingItems[i].id, name |-> existingItems[i].name,
                amount |-> existingItems[i].amount, isSelected |-> TRUE, shares |-> 1]]

\* addParticipant (the id is Date.now(), any id no participant has had)
AddParticipant(participants, id, name) ==
    Append(participants, [id |-> id, name |-> name, amount |-> 0,
                          isSelected |-> TRUE, shares |-> 1])

\* removeParticipant
RemoveParticipant(participants, id) ==
    LET keep == {i \in Indices(participants) : participants[i].id # id}
        pos(n) == CHOOSE i \in keep : Cardinality({j \in keep : j <= i}) = n
    IN  [n \in 1..Cardinality(keep) |-> participants[pos(n)]]

\* toggleParticipantSelection
ToggleParticipantSelection(participants, id) ==
    [i \in Indices(participants) |->
        IF participants[i].id = id
        THEN [participants[i] EXCEPT !.isSelected = ~participants[i].isSelected]
        ELSE participants[i]]

\* updateParticipantAmount
UpdateParticipantAmount(participants, id, amount) ==
    [i \in Indices(participants) |->
        IF participants[i].id = id THEN [participants[i] EXCEPT !.amount = amount]
        ELSE participants[i]]

\* updateParticipantShares
UpdateParticipantShares(participants, id, shares) ==
    [i \in Indices(participants) |->
        IF participants[i].id = id THEN [participants[i] EXCEPT !.shares = Max(0, shares)]
        ELSE participants[i]]

RECURSIVE RemoveAll(_, _)
RemoveAll(participants, ids) ==
    IF ids = {} THEN participants
    ELSE LET id == CHOOSE x \in ids : TRUE
         IN  RemoveAll(RemoveParticipant(participants, id), ids \ {id})

RECURSIVE AddAll(_, _, _)
AddAll(participants, nextId, names) ==
    IF names = <<>> THEN participants
    ELSE AddAll(AddParticipant(participants, nextId, Head(names)), nextId + 1, Tail(names))

RECURSIVE TypeAmounts(_, _, _)
TypeAmounts(participants, ids, amount) ==
    IF ids = {} THEN participants
    ELSE LET id == CHOOSE x \in ids : TRUE
         IN  TypeAmounts(UpdateParticipantAmount(participants, id, amount), ids \ {id}, amount)

RECURSIVE MaxId(_)
MaxId(items) == IF items = <<>> THEN UserId ELSE Max(Head(items).id, MaxId(Tail(items)))

\* the names added in one modal session, in the order typed
NewPeople == {<<>>, <<"Alex">>, <<"Alex", "Alex">>, <<"Alex", "Sam">>}
NameLists(n) == {names \in NewPeople : Len(names) <= n}

\* the participant lists the modal can hold after it was opened on tx: some
\* existing participants removed, then new ones added
ModalPeople(tx) ==
    LET opened == OpenLendModal(tx)
        existingIds == {opened[i].id : i \in 2..Len(opened)}
    IN  UNION {{AddAll(RemoveAll(opened, removed), MaxId(tx.splitDetails.items) + 1, names) :
                   names \in NameLists(MaxPeople - Cardinality(existingIds \ removed))} :
               removed \in SUBSET existingIds}

\* ... and the chosen mode's input column edited: in equal mode the owner's
\* check box toggled or not; in exact mode one amount typed for every added
\* participant and for some of the others; in shares mode at most one weight
\* changed
ModalForms(tx, splitMode) ==
    UNION {
        LET others == {people[i].id : i \in 2..Len(people)}
            added == {id \in others : id > MaxId(tx.splitDetails.items)}
        IN  CASE splitMode = "equal" ->
                    {people, ToggleParticipantSelection(people, UserId)}
              [] splitMode = "exact" ->
                    {TypeAmounts(people, ids, amount) :
                        ids \in {x \in SUBSET others : added \subseteq x},
                        amount \in ExactAmounts}
              [] splitMode = "shares" ->
                    {people} \cup
                    {UpdateParticipantShares(people, id, w) :
                        id \in others \cup {UserId}, w \in ShareChoices}
        : people \in ModalPeople(tx)}

----------------------------------------------------------------------------
(* TransactionList.handleLendSave *)

\* the Save Split button is disabled while exact amounts exceed the bill by more than 0.01
OverAllocEps == 10

\* a head count and a share total that leave the owner out
SelectedCountOthers(participants) ==
    Cardinality({i \in Indices(participants) :
                    participants[i].isSelected /\ participants[i].id # UserId})
TotalSharesOthers(participants) ==
    SumSeq([i \in Indices(participants) |->
               IF participants[i].id # UserId THEN participants[i].shares ELSE 0])

\* selectedCount, totalAllocatedExact / remainingExact, totalShares
SelectedCount(participants) ==
    Cardinality({i \in Indices(participants) : participants[i].isSelected})
RemainingExact(tx, participants) ==
    tx.amount - SumSeq([i \in Indices(participants) |->
                           IF participants[i].id # UserId THEN participants[i].amount ELSE 0])
TotalShares(participants) ==
    SumSeq([i \in Indices(participants) |-> participants[i].shares])

SaveDisabled(tx, splitMode, participants) ==
    splitMode = "exact" /\ RemainingExact(tx, participants) < 0 - OverAllocEps

\* The amount a participant is charged before rounding, as the fraction
\* Num/Den: splitAmount, shares * shareUnitValue, or the exact amount typed
AmountDen(tx, splitMode, participants) ==
    CASE splitMode = "equal" ->
            IF SelectedCount(participants) > 0 THEN SelectedCount(participants) ELSE 1
      [] splitMode = "shares" ->
            IF TotalShares(participants) > 0 THEN TotalShares(participants) ELSE 1
      [] OTHER -> 1

AmountNum(tx, splitMode, participants, p) ==
    CASE splitMode = "equal" -> IF SelectedCount(participants) > 0 THEN tx.amount ELSE 0
      [] splitMode = "shares" -> IF TotalShares(participants) > 0 THEN p.shares * tx.amount ELSE 0
      [] OTHER -> p.amount

\* the filter and the if of the three branches: who gets an item
GetsItem(tx, splitMode, participants, p) ==
    /\ p.id # UserId
    /\ CASE splitMode = "equal" -> p.isSelected
         [] OTHER -> AmountNum(tx, splitMode, participants, p) > 0

\* sweepCreditForPerson, the forEach over the ledger from transaction i on;
\* surpluses are read from the ledger, the caps written to updatesMap
RECURSIVE SweepFrom(_, _, _, _, _, _)
SweepFrom(txs, lendingTx, personName, i, creditFound, updatesMap) ==
    IF i > Len(txs) THEN [creditFound |-> creditFound, updatesMap |-> updatesMap]
    ELSE
        LET tx == txs[i]
            itemIndex == FindIndex(tx.splitDetails.items, LAMBDA it : it.name = personName)
            surplus == tx.splitDetails.items[itemIndex].paidAmount
                       - tx.splitDetails.items[itemIndex].amount
            txToUpdate == IF MapHas(updatesMap, tx.id) THEN MapGet(updatesMap, tx.id) ELSE tx
            idx == FindIndex(txToUpdate.splitDetails.items, LAMBDA it : it.name = personName)
            capped == IF idx = 0 THEN txToUpdate
                      ELSE [txToUpdate EXCEPT
                               !.splitDetails.items[idx].paidAmount =
                                   txToUpdate.splitDetails.items[idx].amount,
                               !.splitDetails.items[idx].isSettled = TRUE]
        IN  IF tx.id = lendingTx.id \/ ~HasSplit(tx) \/ itemIndex = 0
            THEN SweepFrom(txs, lendingTx, personName, i + 1, creditFound, updatesMap)
            ELSE IF surplus > SweepEps
                 THEN SweepFrom(txs, lendingTx, personName, i + 1,
                                creditFound + surplus, MapSet(updatesMap, capped))
                 ELSE SweepFrom(txs, lendingTx, personName, i + 1, creditFound, updatesMap)

SweepCreditForPerson(txs, lendingTx, personName, updatesMap) ==
    SweepFrom(txs, lendingTx, personName, 1, 0, updatesMap)

\* an item builder that counts only the swept credit as paid
CreateItemStartingUnpaid(lendingTx, p, formattedAmount, creditsFromOthers) ==
    LET k == FindIndex(lendingTx.splitDetails.items, LAMBDA it : it.id = p.id)
        hasExisting == k # 0
        existingItem == lendingTx.splitDetails.items[k]
        paidAmount == creditsFromOthers
        isSettled == paidAmount >= formattedAmount - SettledEps
    IN  [id |-> p.id, name |-> p.name, amount |-> formattedAmount,
         paidAmount |-> paidAmount, isSettled |-> isSettled,
         dateSettled |->
            IF isSettled /\ ~(hasExisting /\ existingItem.isSettled) THEN Today
            ELSE IF hasExisting THEN existingItem.dateSettled ELSE Undefined,
         payments |-> IF hasExisting THEN existingItem.payments ELSE <<>>]

\* an item builder that keeps what was paid and forgets the payments
CreateItemWithoutPayments(lendingTx, p, formattedAmount, creditsFromOthers) ==
    LET k == FindIndex(lendingTx.splitDetails.items, LAMBDA it : it.id = p.id)
        hasExisting == k # 0
        existingItem == lendingTx.splitDetails.items[k]
        paidAmount == (IF hasExisting THEN existingItem.paidAmount ELSE 0) + creditsFromOthers
        isSettled == paidAmount >= formattedAmount - SettledEps
    IN  [id |-> p.id, name |-> p.name, amount |-> formattedAmount,
         paidAmount |-> paidAmount, isSettled |-> isSettled,
         dateSettled |->
            IF isSettled /\ ~(hasExisting /\ existingItem.isSettled) THEN Today
            ELSE IF hasExisting THEN existingItem.dateSettled ELSE Undefined,
         payments |-> <<>>]

\* createItem, given the credit the sweep returned
CreateItem(lendingTx, p, formattedAmount, creditsFromOthers) ==
    LET k == FindIndex(lendingTx.splitDetails.items, LAMBDA it : it.id = p.id)
        hasExisting == k # 0
        existingItem == lendingTx.splitDetails.items[k]
        paidAmount == (IF hasExisting THEN existingItem.paidAmount ELSE 0) + creditsFromOthers
        isSettled == paidAmount >= formattedAmount - SettledEps
    IN  [id |-> p.id, name |-> p.name, amount |-> formattedAmount,
         paidAmount |-> paidAmount, isSettled |-> isSettled,
         dateSettled |->
            IF isSettled /\ ~(hasExisting /\ existingItem.isSettled) THEN Today
            ELSE IF hasExisting THEN existingItem.dateSettled ELSE Undefined,
         payments |-> IF hasExisting THEN existingItem.payments ELSE <<>>]

\* the forEach of the chosen branch, from participant i on
RECURSIVE BuildItems(_, _, _, _, _, _, _, _)
BuildItems(txs, lendingTx, splitMode, participants, i, items, totalNum, updatesMap) ==
    IF i > Len(participants)
    THEN [items |-> items, totalNum |-> totalNum, updatesMap |-> updatesMap]
    ELSE
        LET p == participants[i]
            num == AmountNum(lendingTx, splitMode, participants, p)
            den == AmountDen(lendingTx, splitMode, participants)
            swept == SweepCreditForPerson(txs, lendingTx, p.name, updatesMap)
            item == CreateItem(lendingTx, p, ToFixed2(num, den), swept.creditFound)
        IN  IF GetsItem(lendingTx, splitMode, participants, p)
            THEN BuildItems(txs, lendingTx, splitMode, participants, i + 1,
                            Append(items, item), totalNum + num, swept.updatesMap)
            ELSE BuildItems(txs, lendingTx, splitMode, participants, i + 1,
                            items, totalNum, updatesMap)

\* Array.from(updatesMap.values()) of handleLendSave: the swept transactions,
\* then the transaction being split
LendSaveUpdates(txs, lendingTx, splitMode, participants) ==
    LET built == BuildItems(txs, lendingTx, splitMode, participants, 1, <<>>, 0, <<>>)
        updatedCurrentTx ==
            [lendingTx EXCEPT
                !.status = "verified",
                !.isReviewed = TRUE,
                !.splitDetails =
                    IF built.items = <<>> THEN NoSplit
                    ELSE [totalLent |-> ToFixed2(built.totalNum,
                                                 AmountDen(lendingTx, splitMode, participants)),
                          items |-> built.items,
                          splitType |-> splitMode,
                          dateLent |-> IF HasSplit(lendingTx)
                                       THEN lendingTx.splitDetails.dateLent ELSE Today]]
    IN  MapSet(built.updatesMap, updatedCurrentTx)

SplitModes == {"equal", "exact", "shares"}

\* open the modal on transaction t, fill it in, press Save Split
HandleLendSave(t, splitMode, participants) ==
    /\ opCount < MaxOps
    /\ ~SaveDisabled(transactions[t], splitMode, participants)
    /\ transactions' = HandleUpdateTransaction(transactions,
                            LendSaveUpdates(transactions, transactions[t], splitMode, participants))
    /\ lastOp' = [op |-> "lendSave", tx |-> t, id |-> 0, who |-> NoPerson,
                  amt |-> 0, was |-> FALSE,
                  batch |-> Len(LendSaveUpdates(transactions, transactions[t],
                                                splitMode, participants))]
    /\ opCount' = opCount + 1
    /\ UNCHANGED <<rules, potentialDuplicates, view>>

----------------------------------------------------------------------------
(* Text and numbers as JavaScript handles them *)

\* the characters that occur, in UTF-16 code unit order
CharOrder == <<".", "0", "1", "2", "3", "4", "5", "6", "7", "8", "9",
               "A", "B", "C", "E", "K", "N", "R", "S", "T", "U",
               "a", "b", "c", "e", "f", "i", "k", "l", "n", "r", "s", "t", "u", "x">>
CharCode(c) == CHOOSE i \in Indices(CharOrder) : CharOrder[i] = c

\* String.prototype.toLowerCase
LowerChar(c) ==
    CASE c = "A" -> "a" [] c = "B" -> "b" [] c = "C" -> "c" [] c = "E" -> "e"
      [] c = "K" -> "k" [] c = "N" -> "n" [] c = "R" -> "r" [] c = "S" -> "s"
      [] c = "T" -> "t" [] c = "U" -> "u" [] OTHER -> c
ToLowerCase(s) == [i \in Indices(s) |-> LowerChar(s[i])]

\* String.prototype.includes, startsWith
Includes(s, sub) ==
    \E i \in 0..(Len(s) - Len(sub)) : SubSeq(s, i + 1, i + Len(sub)) = sub
StartsWith(s, sub) == Len(sub) <= Len(s) /\ SubSeq(s, 1, Len(sub)) = sub

\* the relational comparison of two strings: code unit by code unit
RECURSIVE StringLess(_, _)
StringLess(a, b) ==
    IF b = <<>> THEN FALSE
    ELSE IF a = <<>> THEN TRUE
    ELSE IF Head(a) = Head(b) THEN StringLess(Tail(a), Tail(b))
    ELSE CharCode(Head(a)) < CharCode(Head(b))

\* a number that may be NaN; val is in thousandths
NaN == [nan |-> TRUE, val |-> 0]
Num(n) == [nan |-> FALSE, val |-> n]
Digits == <<"0", "1", "2", "3", "4", "5", "6", "7", "8", "9">>
IsDigit(c) == \E d \in Indices(Digits) : Digits[d] = c
DigitValue(c) == (CHOOSE d \in Indices(Digits) : Digits[d] = c) - 1

\* how many digits s holds from position i on
RECURSIVE DigitRun(_, _)
DigitRun(s, i) == IF i <= Len(s) /\ IsDigit(s[i]) THEN 1 + DigitRun(s, i + 1) ELSE 0

\* the number written by the digits s[i .. i+n-1]
RECURSIVE DigitsValue(_, _, _)
DigitsValue(s, i, n) ==
    IF n = 0 THEN 0 ELSE DigitsValue(s, i, n - 1) * 10 + DigitValue(s[i + n - 1])

\* parseFloat of text made of digits, "." and letters: the longest numeric
\* prefix, in thousandths (digits past the third decimal are cut), NaN if none
ParseFloat(s) ==
    LET n1 == DigitRun(s, 1)
        hasDot == n1 < Len(s) /\ s[n1 + 1] = "."
        n2 == IF hasDot THEN DigitRun(s, n1 + 2) ELSE 0
        d(k) == IF k <= n2 THEN DigitValue(s[n1 + 1 + k]) ELSE 0
    IN  IF n1 = 0 /\ n2 = 0 THEN NaN
        ELSE Num(DigitsValue(s, 1, n1) * 1000 + d(1) * 100 + d(2) * 10 + d(3))

\* the decimal digits of a natural number
RECURSIVE NatToString(_)
NatToString(n) ==
    IF n < 10 THEN <<Digits[n + 1]>> ELSE Append(NatToString(n \div 10), Digits[(n % 10) + 1])

\* String(x) of a non-negative number given in thousandths, or of NaN:
\* no trailing zeros, no decimal point for a whole number
NumberToString(x) ==
    IF x.nan THEN <<"N", "a", "N">>
    ELSE LET whole == NatToString(x.val \div 1000)
             f == x.val % 1000
         IN  IF f = 0 THEN whole
             ELSE IF f % 100 = 0 THEN whole \o <<".">> \o NatToString(f \div 100)
             ELSE IF f % 10 = 0
                  THEN whole \o <<".", Digits[(f \div 100) + 1], Digits[((f \div 10) % 10) + 1]>>
                  ELSE whole \o <<".", Digits[(f \div 100) + 1], Digits[((f \div 10) % 10) + 1],
                                  Digits[(f % 10) + 1]>>

----------------------------------------------------------------------------
(* App.applyRulesToTransaction *)

\* obj[f] || dflt for a text or list property that may be absent
GetOr(obj, f, dflt) == IF f \in DOMAIN obj THEN obj[f] ELSE dflt

\* obj.f = v: the property is created when the object has none
SetField(obj, f, v) == [x \in DOMAIN obj \cup {f} |-> IF x = f THEN v ELSE obj[x]]

\* the rule's test of the transaction as it stands
IsMatch(modifiedTx, rule) ==
    LET onAmount == rule.criteria.field = "amount"
        valToCheck == IF onAmount THEN Num(modifiedTx.amount)
                      ELSE ToLowerCase(GetOr(modifiedTx, rule.criteria.field, <<>>))
        criterionVal == IF onAmount THEN ParseFloat(rule.criteria.value)
                        ELSE ToLowerCase(rule.criteria.value)
        \* String(valToCheck), String(criterionVal)
        valString == IF onAmount THEN NumberToString(valToCheck) ELSE valToCheck
        criterionString == IF onAmount THEN NumberToString(criterionVal) ELSE criterionVal
    IN  CASE rule.criteria.operator = "contains" -> Includes(valString, criterionString)
          [] rule.criteria.operator = "equals" -> valString = criterionString
          [] rule.criteria.operator = "starts_with" -> StartsWith(valString, criterionString)
          \* the casts "as number" do nothing at run time: two numbers are
          \* compared as numbers (false with NaN), two strings as strings
          [] rule.criteria.operator = "greater_than" ->
                IF onAmount THEN ~criterionVal.nan /\ valToCheck.val > criterionVal.val
                ELSE StringLess(criterionVal, valToCheck)
          [] rule.criteria.operator = "less_than" ->
                IF onAmount THEN ~criterionVal.nan /\ valToCheck.val < criterionVal.val
                ELSE StringLess(valToCheck, criterionVal)
          [] OTHER -> FALSE

\* Array.from(new Set(list)): first occurrences, in order
RECURSIVE ArrayFromSet(_)
ArrayFromSet(list) ==
    IF list = <<>> THEN <<>>
    ELSE LET init == ArrayFromSet(SubSeq(list, 1, Len(list) - 1))
             last == list[Len(list)]
         IN  IF \E i \in Indices(init) : init[i] = last THEN init ELSE Append(init, last)

\* a tag action that replaces the tags by the rule's
AddTagsReplacing(tags, addTags) == ArrayFromSet(addTags)

\* a tag merge that appends without looking for repeats
AddTagsAppending(tags, addTags) == tags \o addTags

\* currentTags = new Set(tags); addTags.forEach(add); Array.from(currentTags)
AddTags(tags, addTags) == ArrayFromSet(tags \o addTags)

\* the three optional actions of a matching rule
RuleEdits(modifiedTx, rule) ==
    LET renamed == IF GetOr(rule.actions, "renameTo", <<>>) # <<>>
                   THEN SetField(modifiedTx, "enhancedDescription", rule.actions.renameTo)
                   ELSE modifiedTx
        categorized == IF GetOr(rule.actions, "setCategory", "") # ""
                       THEN SetField(renamed, "category", rule.actions.setCategory)
                       ELSE renamed
        tagged == IF "addTags" \in DOMAIN rule.actions
                  THEN SetField(categorized, "tags",
                                AddTags(GetOr(categorized, "tags", <<>>), rule.actions.addTags))
                  ELSE categorized
    IN  tagged

\* a match that leaves the review fields as they are
MarkNothing(modifiedTx) == modifiedTx

\* "If rules touched it, mark reviewed and boost confidence"
MarkReviewed(modifiedTx) ==
    SetField(SetField(SetField(modifiedTx, "isReviewed", TRUE), "confidence", 100),
             "status", "verified")

\* the body of "if (isMatch)"
ApplyActions(modifiedTx, rule) == MarkReviewed(RuleEdits(modifiedTx, rule))

\* the forEach callback, for one active rule
ApplyRule(modifiedTx, rule) ==
    IF IsMatch(modifiedTx, rule) THEN ApplyActions(modifiedTx, rule) ELSE modifiedTx

\* an engine that stops at the first rule that matches
RECURSIVE ApplyRulesFirstMatchOnly(_, _)
ApplyRulesFirstMatchOnly(tx, rulesList) ==
    IF rulesList = <<>> THEN tx
    ELSE IF Head(rulesList).isActive /\ IsMatch(tx, Head(rulesList))
         THEN ApplyActions(tx, Head(rulesList))
         ELSE ApplyRulesFirstMatchOnly(tx, Tail(rulesList))

\* rulesList.filter(r => r.isActive).forEach(...), from the copy of tx
RECURSIVE ApplyRulesToTransaction(_, _)
ApplyRulesToTransaction(tx, rulesList) ==
    IF rulesList = <<>> THEN tx
    ELSE ApplyRulesToTransaction(
             IF Head(rulesList).isActive THEN ApplyRule(tx, Head(rulesList)) ELSE tx,
             Tail(rulesList))

\* DEFAULT_RULES
DEFAULT_RULES ==
    << [id |-> 1, name |-> "Auto-tag Uber", isActive |-> TRUE,
        criteria |-> [field |-> "originalDescription", operator |-> "contains",
                      value |-> <<"U", "B", "E", "R">>],
        actions |-> [setCategory |-> "Travel", addTags |-> <<"Rideshare">>]],
       [id |-> 2, name |-> "Clean up Starbucks", isActive |-> TRUE,
        criteria |-> [field |-> "originalDescription", operator |-> "contains",
                      value |-> <<"S", "T", "A", "R", "B", "U", "C", "K", "S">>],
        actions |-> [renameTo |-> <<"S", "t", "a", "r", "b", "u", "c", "k", "s">>,
                     setCategory |-> "Dining Out", addTags |-> <<"Coffee">>]] >>

\* handleUpdateRule, runRulesOnAllTransactions
HandleUpdateRule(prev, updatedRule) ==
    [i \in Indices(prev) |-> IF prev[i].id = updatedRule.id THEN updatedRule ELSE prev[i]]
RunRulesOnAll(prev, rulesList) ==
    [i \in Indices(prev) |-> ApplyRulesToTransaction(prev[i], rulesList)]

----------------------------------------------------------------------------
(* Specification *)

Init ==
    /\ transactions = INITIAL_TRANSACTIONS
    /\ opCount = 0
    /\ lastOp = [op |-> "init", tx |-> 0, id |-> 0, who |-> NoPerson, amt |-> 0,
                 was |-> FALSE, batch |-> 0]
    /\ rules = DEFAULT_RULES
    /\ potentialDuplicates = <<>>
    /\ view = "dashboard"

Next ==
    \/ opCount < MaxOps /\ \E t \in Indices(transactions), splitMode \in SplitModes :
          \E participants \in ModalForms(transactions[t], splitMode) :
              HandleLendSave(t, splitMode, participants)
    \/ opCount < MaxOps /\ \E t \in Indices(transactions), k \in 1..MaxPeople :
          HandleSettleItem(t, k)
    \/ opCount < MaxOps /\ \E selected \in Names, amountToPay \in PayAmounts :
          HandleBulkSettle(selected, amountToPay)

Spec == Init /\ [][Next]_vars

----------------------------------------------------------------------------
(* The rule engine on its own: a ledger of one transaction and a rule list,
   both drawn from the sets below, and the "Run Rules Now" button *)

Uber == <<"U", "b", "e", "r">>
Club == <<"C", "l", "u", "b">>
Taxi == <<"T", "a", "x", "i">>

WithoutField(obj, f) == [x \in DOMAIN obj \ {f} |-> obj[x]]

\* transactions the rules are run on; some have no enhancedDescription
RuleTxs ==
    LET full == {[id |-> 1, date |-> 25, amount |-> amount, originalDescription |-> original,
                  enhancedDescription |-> enhanced, category |-> "Other", tags |-> tags,
                  status |-> review.status, confidence |-> review.confidence,
                  isReviewed |-> review.isReviewed, splitDetails |-> NoSplit] :
                    amount \in {15000, 120500}, original \in {Uber, Club},
                    enhanced \in {<<"u", "b">>, Taxi}, tags \in {<<>>, <<"t", "t">>},
                    review \in {[status |-> "needs_review", confidence |-> 45, isReviewed |-> FALSE],
                                [status |-> "verified", confidence |-> 100, isReviewed |-> TRUE]}}
    IN  full \cup {WithoutField(tx, "enhancedDescription") : tx \in {t \in full : t.enhancedDescription = Taxi}}

RuleFields == {"originalDescription", "enhancedDescription", "amount"}
RuleOperators == {"contains", "equals", "starts_with", "greater_than", "less_than"}
RuleValues == {<<"U", "B">>, <<"1", "5">>}

\* the THEN side of the rule form: any of the three actions may be left out
RuleActions ==
    {[f \in keep |-> full[f]] :
        keep \in SUBSET {"renameTo", "setCategory", "addTags"},
        full \in {[renameTo |-> renameTo, setCategory |-> "Travel", addTags |-> <<"t", "s">>] :
                     renameTo \in {Taxi, Club}}}

\* every active rule the form can save over these choices
RuleForms ==
    {[id |-> 1, name |-> "rule", isActive |-> TRUE,
      criteria |-> [field |-> field, operator |-> operator, value |-> value],
      actions |-> actions] :
        field \in RuleFields, operator \in RuleOperators, value \in RuleValues,
        actions \in RuleActions}

\* rules that set the same fields, feed one another, are switched off or do nothing
ChainRules ==
    { [id |-> 1, name |-> "ub", isActive |-> TRUE,
       criteria |-> [field |-> "originalDescription", operator |-> "contains", value |-> <<"U", "B">>],
       actions |-> [renameTo |-> Taxi, setCategory |-> "Travel"]],
      [id |-> 2, name |-> "taxi", isActive |-> TRUE,
       criteria |-> [field |-> "enhancedDescription", operator |-> "equals", value |-> Taxi],
       actions |-> [renameTo |-> Club, setCategory |-> "Dining Out", addTags |-> <<"s">>]],
      [id |-> 3, name |-> "big", isActive |-> TRUE,
       criteria |-> [field |-> "amount", operator |-> "greater_than", value |-> <<"1", "5">>],
       actions |-> [setCategory |-> "Big"]],
      [id |-> 4, name |-> "off", isActive |-> FALSE,
       criteria |-> [field |-> "originalDescription", operator |-> "contains", value |-> <<"U", "B">>],
       actions |-> [renameTo |-> Club, setCategory |-> "Off", addTags |-> <<"off">>]],
      [id |-> 5, name |-> "mark", isActive |-> TRUE,
       criteria |-> [field |-> "originalDescription", operator |-> "starts_with", value |-> <<"c">>],
       actions |-> [x \in {} |-> x]] }

RuleLists ==
    {<<r>> : r \in RuleForms}
    \cup {<<r1, r2>> : r1 \in ChainRules, r2 \in ChainRules}
    \cup {<<r1, r2, r3>> : r1 \in ChainRules, r2 \in ChainRules, r3 \in ChainRules}

\* runRulesOnAllTransactions
RunRulesOnAllTransactions ==
    /\ opCount < MaxOps
    /\ transactions' = RunRulesOnAll(transactions, rules)
    /\ lastOp' = [op |-> "runRules", before |-> transactions]
    /\ opCount' = opCount + 1
    /\ UNCHANGED <<rules, potentialDuplicates, view>>

RuleInit ==
    /\ transactions \in {<<tx>> : tx \in RuleTxs}
    /\ rules \in RuleLists
    /\ opCount = 0
    /\ lastOp = [op |-> "init", before |-> <<>>]
    /\ potentialDuplicates = <<>>
    /\ view = "settings"

RuleNext == RunRulesOnAllTransactions

RuleSpec == RuleInit /\ [][RuleNext]_vars

----------------------------------------------------------------------------
(* App.handleTransactionsParsed *)

\* a parsed candidate is a record that may lack any field; its date is the
\* text the parser gave: <<>> for '' and <<d>> for the YYYY-MM-DD text of
\* day d
EmptyText == <<>>
DateText(d) == <<d>>

\* the length of a day, 1000 * 60 * 60 * 24 ms, with time counted in seconds
DaySeconds == 86400

\* the amount tolerance 0.01 of duplicate detection
DupEps == 10

\* the confidence from which an imported record counts as verified
VerifiedConfidence == 80

\* new Date(date).getTime() of a YYYY-MM-DD text and of a ledger date
GetTime(day) == day * DaySeconds
DayNumber(text) == text[1]

Abs(x) == IF x < 0 THEN 0 - x ELSE x

\* Math.ceil(a / b) for a >= 0, b > 0
CeilDiv(a, b) == IF a % b = 0 THEN a \div b ELSE (a \div b) + 1

\* a validity test that also drops a zero amount
IsValidTruthyAmount(incoming) ==
    /\ "date" \in DOMAIN incoming /\ incoming.date # EmptyText
    /\ "amount" \in DOMAIN incoming /\ incoming.amount # 0
    /\ "originalDescription" \in DOMAIN incoming
    /\ incoming.originalDescription # EmptyText

\* the negation of "!incoming.date || incoming.amount === undefined ||
\* !incoming.originalDescription"
IsValid(incoming) ==
    /\ "date" \in DOMAIN incoming /\ incoming.date # EmptyText
    /\ "amount" \in DOMAIN incoming
    /\ "originalDescription" \in DOMAIN incoming
    /\ incoming.originalDescription # EmptyText

\* a default status that asks for more than the threshold
DefaultStatusAbove(confidence) ==
    IF confidence > VerifiedConfidence THEN "verified" ELSE "needs_review"

\* confidence >= 80 ? 'verified' : 'needs_review'
DefaultStatus(confidence) ==
    IF confidence >= VerifiedConfidence THEN "verified" ELSE "needs_review"

\* { tags: [], ...incoming, id, status, isReviewed: false }; the date is kept
\* as its day number and the absent splitDetails as NoSplit, as in the ledger
NewIncomingTx(incoming, id) ==
    [f \in DOMAIN incoming \cup {"tags", "id", "status", "isReviewed", "splitDetails"} |->
        CASE f = "id" -> id
          [] f = "status" -> DefaultStatus(GetOr(incoming, "confidence", 0))
          [] f = "isReviewed" -> FALSE
          [] f = "splitDetails" -> NoSplit
          [] f = "tags" -> GetOr(incoming, "tags", <<>>)
          [] f = "date" -> DayNumber(incoming.date)
          [] OTHER -> incoming[f]]

\* a date test that accepts the same day only
DateMatchSameDay(existing, incomingTx) ==
    CeilDiv(Abs(GetTime(incomingTx.date) - GetTime(existing.date)), DaySeconds) < 1

\* amountMatch, dateMatch
AmountMatch(existing, incomingTx) == Abs(existing.amount - incomingTx.amount) < DupEps
DateMatch(existing, incomingTx) ==
    CeilDiv(Abs(GetTime(incomingTx.date) - GetTime(existing.date)), DaySeconds) <= 1

\* transactions.find(existing => amountMatch && dateMatch): the position of
\* the first match, 0 for undefined
RECURSIVE FindMatchFrom(_, _, _)
FindMatchFrom(txs, incomingTx, i) ==
    IF i > Len(txs) THEN 0
    ELSE IF AmountMatch(txs[i], incomingTx) /\ DateMatch(txs[i], incomingTx) THEN i
    ELSE FindMatchFrom(txs, incomingTx, i + 1)
PotentialMatch(txs, incomingTx) == FindMatchFrom(txs, incomingTx, 1)

\* a search that also looks at the records accepted earlier in the batch
LedgerWithAccepted(ledger, newTransactions) == ledger \o newTransactions

\* the list that is searched: the transactions of the render in which the
\* handler was created, whatever the batch has accepted so far
LedgerSearched(ledger, newTransactions) == ledger

\* { id, existing, incoming, confidence: 0.9 }, the confidence in percent
DuplicatePair(id, existing, incomingTx) ==
    [id |-> id, existing |-> existing, incoming |-> incomingTx, confidence |-> 90]

\* a flagged candidate that is accepted as well
PushKeepingFlagged(acc, ledger, m, incomingTx) ==
    [newTransactions |-> Append(acc.newTransactions, incomingTx),
     newDuplicates |-> IF m # 0
                       THEN Append(acc.newDuplicates, DuplicatePair(incomingTx.id, ledger[m], incomingTx))
                       ELSE acc.newDuplicates]

\* if (potentialMatch) newDuplicates.push(...) else newTransactions.push(...)
PushResult(acc, ledger, m, incomingTx) ==
    IF m # 0
    THEN [acc EXCEPT !.newDuplicates = Append(@, DuplicatePair(incomingTx.id, ledger[m], incomingTx))]
    ELSE [acc EXCEPT !.newTransactions = Append(@, incomingTx)]

\* the forEach callback; id is the fresh id this candidate gets
ImportOne(acc, incoming, ledger, rulesList, id) ==
    IF ~IsValid(incoming) THEN acc
    ELSE LET incomingTx == ApplyRulesToTransaction(NewIncomingTx(incoming, id), rulesList)
             searched == LedgerSearched(ledger, acc.newTransactions)
         IN  PushResult(acc, searched, PotentialMatch(searched, incomingTx), incomingTx)

\* parsed.forEach(...); every candidate draws the next fresh id
RECURSIVE ImportFrom(_, _, _, _, _)
ImportFrom(acc, parsed, ledger, rulesList, id) ==
    IF parsed = <<>> THEN acc
    ELSE ImportFrom(ImportOne(acc, Head(parsed), ledger, rulesList, id),
                    Tail(parsed), ledger, rulesList, id + 1)

\* an id no transaction of the ledger or of a pending pair has
RECURSIVE MaxTxId(_)
MaxTxId(txs) == IF txs = <<>> THEN 0 ELSE Max(Head(txs).id, MaxTxId(Tail(txs)))
FreshId(ledger, pairs) ==
    1 + Max(MaxTxId(ledger), MaxTxId([i \in Indices(pairs) |-> pairs[i].incoming]))

\* a choice of view that looks at the duplicate pairs only
ViewByDuplicatesOnly(newTransactions, newDuplicates) ==
    IF newDuplicates # <<>> THEN "duplicates" ELSE "transactions"

\* the setView calls that end the handler
ViewAfterImport(newTransactions, newDuplicates) ==
    IF newDuplicates # <<>> THEN "duplicates"
    ELSE IF \E i \in Indices(newTransactions) : newTransactions[i].status = "needs_review"
         THEN "duplicates"
         ELSE "transactions"

\* the number of statements imported in one run
MaxImports == 2

HandleTransactionsParsed(parsed) ==
    LET result == ImportFrom([newTransactions |-> <<>>, newDuplicates |-> <<>>], parsed,
                             transactions, rules, FreshId(transactions, potentialDuplicates))
    IN  /\ opCount < MaxImports
        /\ transactions' = transactions \o result.newTransactions
        /\ potentialDuplicates' = potentialDuplicates \o result.newDuplicates
        /\ view' = ViewAfterImport(result.newTransactions, result.newDuplicates)
        /\ lastOp' = [op |-> "import", parsed |-> parsed]
        /\ opCount' = opCount + 1
        /\ UNCHANGED rules

Cafe == <<"C", "a", "f", "e">>

\* the valid candidates: one two days from tx-2 with its amount and a low
\* confidence; one a day before tx-2 and 0.009 above it that rule-1 matches;
\* one on tx-2's day and 0.01 above it at the confidence threshold; one a day
\* after tx-2 without a confidence; one with amount 0
ValidCandidates ==
    { [date |-> DateText(26), amount |-> 15000, originalDescription |-> Cafe,
       enhancedDescription |-> Cafe, category |-> "Dining Out", tags |-> <<"Coffee">>,
       isExpense |-> TRUE, confidence |-> 79],
      [date |-> DateText(23), amount |-> 15009, originalDescription |-> Uber,
       enhancedDescription |-> Taxi, category |-> "Other", tags |-> <<>>,
       isExpense |-> FALSE, confidence |-> 95],
      [date |-> DateText(24), amount |-> 15010, originalDescription |-> Cafe,
       enhancedDescription |-> Cafe, category |-> "Travel", tags |-> <<>>,
       isExpense |-> TRUE, confidence |-> 80],
      [date |-> DateText(25), amount |-> 15000, originalDescription |-> Taxi,
       category |-> "Income", isExpense |-> FALSE],
      [date |-> DateText(20), amount |-> 0, originalDescription |-> Club,
       enhancedDescription |-> Club, category |-> "Other", tags |-> <<>>,
       isExpense |-> TRUE, confidence |-> 90] }

\* a full candidate, and the candidates validation drops
FullCandidate ==
    [date |-> DateText(24), amount |-> 15000, originalDescription |-> Uber,
     enhancedDescription |-> Taxi, category |-> "Travel", tags |-> <<>>,
     isExpense |-> TRUE, confidence |-> 99]
InvalidCandidates ==
    { WithoutField(FullCandidate, "date"),
      [FullCandidate EXCEPT !.date = EmptyText],
      WithoutField(FullCandidate, "amount"),
      WithoutField(FullCandidate, "originalDescription"),
      [FullCandidate EXCEPT !.originalDescription = EmptyText] }

\* the parsed statements: up to two valid candidates, or one dropped
\* candidate alone, before or after a valid one
Batches ==
    {<<>>}
    \cup {<<c>> : c \in ValidCandidates \cup InvalidCandidates}
    \cup {<<c, d>> : c \in ValidCandidates, d \in ValidCandidates}
    \cup {<<c, d>> : c \in InvalidCandidates, d \in ValidCandidates}
    \cup {<<c, d>> : c \in ValidCandidates, d \in InvalidCandidates}

\* the rule lists of the import: the default rules, with rule-1 on or paused
ImportRuleLists ==
    {DEFAULT_RULES,
     HandleUpdateRule(DEFAULT_RULES, [DEFAULT_RULES[1] EXCEPT !.isActive = FALSE])}

ImportInit ==
    /\ transactions = INITIAL_TRANSACTIONS
    /\ rules \in ImportRuleLists
    /\ opCount = 0
    /\ lastOp = [op |-> "init", parsed |-> <<>>]
    /\ potentialDuplicates = <<>>
    /\ view = "upload"

ImportNext == \E parsed \in Batches : HandleTransactionsParsed(parsed)

ImportSpec == ImportInit /\ [][ImportNext]_vars

----------------------------------------------------------------------------
(* App.handleDuplicateResolution *)

ResolveActions == {"keep_both", "discard_incoming"}

\* prev.find(p => p.id === id): the position of the pair, 0 if there is none
TargetPair(pairs, id) ==
    IF \E i \in Indices(pairs) : pairs[i].id = id
    THEN CHOOSE i \in Indices(pairs) :
            /\ pairs[i].id = id
            /\ \A k \in 1..(i - 1) : pairs[k].id # id
    ELSE 0

\* prev.filter(p => p.id !== id)
RemainingPairs(pairs, id) ==
    LET Other(p) == p.id # id
    IN  SelectSeq(pairs, Other)

\* { ...target.incoming, status: 'verified' }
KeptIncoming(pair) == [pair.incoming EXCEPT !.status = "verified"]

\* a resolution that appends the incoming transaction as it was imported
ResolvedLedgerAsImported(ledger, pairs, id, action) ==
    IF action = "keep_both" /\ TargetPair(pairs, id) # 0
    THEN Append(ledger, pairs[TargetPair(pairs, id)].incoming)
    ELSE ledger

\* if (action === 'keep_both' && target) setTransactions(currTxs => [...])
ResolvedLedger(ledger, pairs, id, action) ==
    IF action = "keep_both" /\ TargetPair(pairs, id) # 0
    THEN Append(ledger, KeptIncoming(pairs[TargetPair(pairs, id)]))
    ELSE ledger

\* the Keep Both or the Discard button of the pair id; each updater is
\* applied once
HandleDuplicateResolution(id, action) ==
    /\ transactions' = ResolvedLedger(transactions, potentialDuplicates, id, action)
    /\ potentialDuplicates' = RemainingPairs(potentialDuplicates, id)
    /\ lastOp' = [op |-> "resolve", id |-> id, action |-> action]
    /\ UNCHANGED <<rules, opCount, view>>

\* the ids of the pairs shown on the review screen
PendingIds == {potentialDuplicates[i].id : i \in Indices(potentialDuplicates)}

\* the parsed statements: one valid candidate, or the two that are a day
\* from tx-2 on either side
ResolveBatches ==
    {<<c>> : c \in ValidCandidates}
    \cup {<<c, d>> : c \in {x \in ValidCandidates : x.date = DateText(23)},
                     d \in {x \in ValidCandidates : x.date = DateText(25)}}

ResolveNext ==
    \/ \E parsed \in ResolveBatches : HandleTransactionsParsed(parsed)
    \/ \E id \in PendingIds, action \in ResolveActions :
          HandleDuplicateResolution(id, action)

ResolveSpec == ImportInit /\ [][ResolveNext]_vars

----------------------------------------------------------------------------
(* The split modal on its own: a ledger without splits or with tx-2 already
   split between the owner, Alex and Sam, and one Save Split with every
   selection, every exact amount and every weight below *)

\* the amounts typed in exact mode (0 for a box left empty), the weights
\* chosen in shares mode
SplitExactAmounts == {0, 5000, 5010, 10000}
ShareWeights == {0, 1, 2}

\* the participant ids of a list, the owner left out
OtherIds(people) == {people[i].id : i \in 2..Len(people)}

\* the forms the modal can hold when Save Split is pressed: the check boxes
\* of off cleared, an amount typed for everybody but the owner, a weight set
\* for everybody
SplitForms(tx, splitMode) ==
    UNION {
        CASE splitMode = "equal" ->
                {[i \in Indices(people) |->
                     [people[i] EXCEPT !.isSelected = people[i].id \notin off]] :
                 off \in SUBSET (OtherIds(people) \cup {UserId})}
          [] splitMode = "exact" ->
                {[i \in Indices(people) |->
                     IF people[i].id = UserId THEN people[i]
                     ELSE [people[i] EXCEPT !.amount = typed[people[i].id]]] :
                 typed \in [OtherIds(people) -> SplitExactAmounts]}
          [] splitMode = "shares" ->
                {[i \in Indices(people) |->
                     [people[i] EXCEPT !.shares = Max(0, weight[people[i].id])]] :
                 weight \in [OtherIds(people) \cup {UserId} -> ShareWeights]}
        : people \in ModalPeople(tx)}

\* the ledger after tx-2 was split equally between the owner, Alex and Sam
SplitOnceLedger ==
    HandleUpdateTransaction(INITIAL_TRANSACTIONS,
        LendSaveUpdates(INITIAL_TRANSACTIONS, INITIAL_TRANSACTIONS[2], "equal",
                        AddAll(OpenLendModal(INITIAL_TRANSACTIONS[2]), UserId + 1,
                               <<"Alex", "Sam">>)))

\* open the modal on transaction t, fill it in, press Save Split: the one
\* save of a run
SaveSplit(t, splitMode, participants) ==
    /\ opCount = 0
    /\ ~SaveDisabled(transactions[t], splitMode, participants)
    /\ transactions' = HandleUpdateTransaction(transactions,
                            LendSaveUpdates(transactions, transactions[t], splitMode, participants))
    /\ lastOp' = [op |-> "saveSplit", tx |-> t, splitMode |-> splitMode,
                  participants |-> participants]
    /\ opCount' = opCount + 1
    /\ UNCHANGED <<rules, potentialDuplicates, view>>

SplitInit ==
    /\ transactions \in {INITIAL_TRANSACTIONS, SplitOnceLedger}
    /\ opCount = 0
    /\ lastOp = [op |-> "init", tx |-> 0, splitMode |-> "none", participants |-> <<>>]
    /\ rules = DEFAULT_RULES
    /\ potentialDuplicates = <<>>
    /\ view = "transactions"

SplitNext ==
    \E t \in Indices(transactions), splitMode \in SplitModes :
        \E participants \in SplitForms(transactions[t], splitMode) :
            SaveSplit(t, splitMode, participants)

SplitSpec == SplitInit /\ [][SplitNext]_vars

----------------------------------------------------------------------------
(* Ledger measures used by the properties *)

Items(txs, t) == txs[t].splitDetails.items

\* the places <<transaction index, item index>> of the ledger's items, of
\* the items named person
Places(txs) == UNION {{<<t, k>> : k \in Indices(Items(txs, t))} : t \in Indices(txs)}
ItemAt(txs, pl) == Items(txs, pl[1])[pl[2]]
ItemsOfPerson(txs, person) == {pl \in Places(txs) : ItemAt(txs, pl).name = person}

\* the sum of f over the items of the ledger
SumItems(txs, f(_)) ==
    SumSeq([t \in Indices(txs) |->
               SumSeq([k \in Indices(Items(txs, t)) |-> f(Items(txs, t)[k])])])

\* total paidAmount of the items named person
PaidByName(txs, person) ==
    SumItems(txs, LAMBDA it : IF it.name = person THEN it.paidAmount ELSE 0)

\* total of the Payment records of one item, of the whole ledger
PaymentsSum(item) == SumSeq([j \in Indices(item.payments) |-> item.payments[j].amount])
AllPaymentsSum(txs) == SumItems(txs, LAMBDA it : PaymentsSum(it))

\* sum of the outstanding balances of the items named person
OwedByName(txs, person) ==
    SumItems(txs, LAMBDA it : IF it.name = person THEN Max(0, it.amount - it.paidAmount) ELSE 0)

\* credit (paidAmount above amount) the items named person hold on
\* transactions other than the one at index t
SurplusElsewhere(txs, t, person) ==
    SumSeq([u \in Indices(txs) |->
               IF u = t THEN 0
               ELSE SumSeq([k \in Indices(Items(txs, u)) |->
                       IF Items(txs, u)[k].name = person
                       THEN Max(0, Items(txs, u)[k].paidAmount - Items(txs, u)[k].amount)
                       ELSE 0])])

\* paidAmount the item with this id had on transaction t, 0 if there was none
PaidBefore(txs, t, id) ==
    LET k == FindIndex(Items(txs, t), LAMBDA it : it.id = id)
    IN  IF k = 0 THEN 0 ELSE Items(txs, t)[k].paidAmount

\* the date of the latest transaction holding an item named person
MostRecentDate(txs, person) ==
    LET ds == {txs[pl[1]].date : pl \in ItemsOfPerson(txs, person)}
    IN  CHOOSE d \in ds : \A e \in ds : e <= d

\* the step was a split save, a bulk settlement
SaveStep == lastOp'.op = "lendSave" /\ opCount' = opCount + 1
BulkStep == lastOp'.op = "bulkSettle" /\ opCount' = opCount + 1

\* a settlement step leaves every item in its place and lowers no paidAmount
NoPaidDecrease ==
    \A t \in Indices(transactions) :
        /\ Len(Items(transactions', t)) = Len(Items(transactions, t))
        /\ \A k \in Indices(Items(transactions, t)) :
              Items(transactions', t)[k].paidAmount >= Items(transactions, t)[k].paidAmount

----------------------------------------------------------------------------
(* Conservation of paid money *)

\* C1: a split save with credit sweep conserves what each participant has
\* paid: for every person the save gives an item on the saved transaction, the
\* sum of paidAmount over all items of that person in the ledger is the same
\* before and after the save.
C1_SaveConservesPaid ==
    [][SaveStep =>
        \A pl \in {q \in Places(transactions') : q[1] = lastOp'.tx} :
            LET person == ItemAt(transactions', pl).name
            IN  PaidByName(transactions', person) = PaidByName(transactions, person)
      ]_vars

\* C2 as the spec states it: a bulk settlement of X for a person raises the
\* paidAmount of that person's items by exactly X in total, the Payment
\* records it appends sum to exactly X, and no paidAmount goes down.
C2_BulkSettleConservesPayment ==
    [][BulkStep =>
        /\ PaidByName(transactions', lastOp'.who) - PaidByName(transactions, lastOp'.who)
               = lastOp'.amt
        /\ AllPaymentsSum(transactions') - AllPaymentsSum(transactions) = lastOp'.amt
        /\ NoPaidDecrease
      ]_vars

\* C2, amended: a bulk settlement of X for a person raises the paidAmount of
\* that person's items by a total between X - 0.009 and X (the walk stops
\* once 0.009 or less remains, and what remains is dropped), the Payment
\* records it appends sum to that same total, and no paidAmount goes down.
C2_BulkSettleWithinStop ==
    [][BulkStep =>
        LET paidUp == PaidByName(transactions', lastOp'.who)
                      - PaidByName(transactions, lastOp'.who)
        IN  /\ paidUp <= lastOp'.amt
            /\ paidUp >= lastOp'.amt - StopEps
            /\ AllPaymentsSum(transactions') - AllPaymentsSum(transactions) = paidUp
            /\ NoPaidDecrease
      ]_vars

\* a bulk settlement was spread over two transactions
C2_Witness == lastOp.op = "bulkSettle" /\ lastOp.batch = 2 /\ lastOp.amt > StopEps

----------------------------------------------------------------------------
(* Credit sweep *)

\* C3: when a split save creates or updates an item for a person on a
\* transaction, every item of that person on any other transaction that held
\* paidAmount > amount has paidAmount = amount and isSettled = true after the
\* save; the person's item on the saved transaction has paidAmount = its
\* previous paidAmount (0 if new) plus the sum of the withdrawn surpluses and
\* isSettled = (paidAmount >= amount - 0.01); and afterwards no other
\* transaction holds an item of that person with paidAmount > amount.
C3_SweepCapsEverySurplus ==
    [][SaveStep =>
        \A pl \in {q \in Places(transactions') : q[1] = lastOp'.tx} :
            LET item == ItemAt(transactions', pl)
                elsewhere == {q \in ItemsOfPerson(transactions, item.name) : q[1] # pl[1]}
            IN  /\ \A q \in elsewhere :
                      /\ ItemAt(transactions, q).paidAmount > ItemAt(transactions, q).amount
                            => /\ ItemAt(transactions', q).paidAmount
                                      = ItemAt(transactions', q).amount
                               /\ ItemAt(transactions', q).isSettled
                      /\ ItemAt(transactions', q).paidAmount <= ItemAt(transactions', q).amount
                /\ item.paidAmount = PaidBefore(transactions, pl[1], item.id)
                                     + SurplusElsewhere(transactions, pl[1], item.name)
                /\ item.isSettled = (item.paidAmount >= item.amount - SettledEps)
      ]_vars

----------------------------------------------------------------------------
(* Bulk settlement waterfall *)

\* C4: in a bulk settlement for a person, an item of that person on a
\* transaction dated d receives payment only if, after the call, no item of
\* that person on a transaction dated earlier than d has an outstanding
\* balance; and every item other than the person's most recent one receives
\* at most its outstanding balance (and at most the payment).
C4_OldestDebtFirst ==
    [][BulkStep =>
        \A pl \in ItemsOfPerson(transactions, lastOp'.who) :
            LET before == ItemAt(transactions, pl)
                received == ItemAt(transactions', pl).paidAmount - before.paidAmount
                earlier == {q \in ItemsOfPerson(transactions, lastOp'.who) :
                               transactions[q[1]].date < transactions[pl[1]].date}
            IN  received > 0 =>
                  /\ \A q \in earlier :
                        ItemAt(transactions', q).paidAmount >= ItemAt(transactions', q).amount
                  /\ transactions[pl[1]].date # MostRecentDate(transactions, lastOp'.who)
                        => received <= Min(lastOp'.amt, Max(0, before.amount - before.paidAmount))
      ]_vars

\* C5: when the payment exceeds the sum of the outstanding balances of the
\* person's items, every item of the person is settled after the call, and
\* the whole excess is added to the most recent item and to no other: that
\* item's paidAmount exceeds its amount by the excess plus the credit it
\* already held, and no other item is paid beyond its amount.
C5_OverflowToMostRecent ==
    [][(BulkStep /\ lastOp'.amt > OwedByName(transactions, lastOp'.who)) =>
        LET mine == ItemsOfPerson(transactions, lastOp'.who)
            excess == lastOp'.amt - OwedByName(transactions, lastOp'.who)
            credit(q) == Max(0, ItemAt(transactions, q).paidAmount - ItemAt(transactions, q).amount)
        IN  /\ \A q \in mine : ItemAt(transactions', q).isSettled
            /\ \E r \in mine :
                  /\ transactions[r[1]].date = MostRecentDate(transactions, lastOp'.who)
                  /\ ItemAt(transactions', r).paidAmount - ItemAt(transactions', r).amount
                        = excess + credit(r)
                  /\ \A q \in mine \ {r} :
                        ItemAt(transactions', q).paidAmount
                            = Max(ItemAt(transactions, q).paidAmount, ItemAt(transactions, q).amount)
      ]_vars

----------------------------------------------------------------------------
(* Atomic batches *)

\* C6: a split save with credit sweep and a bulk settlement each reach the
\* ledger in one step that applies their whole batch. In a save step, every
\* item on another transaction whose paidAmount the sweep lowered has, in the
\* same step, an item of the same name on the saved transaction that holds at
\* least its previous paidAmount plus the amount withdrawn. In a bulk
\* settlement step, every transaction of the batch, and no other, is replaced
\* by its updated copy.
C6_BatchesAreAtomic ==
    [][/\ SaveStep =>
            \A q \in {x \in Places(transactions) : x[1] # lastOp'.tx} :
                ItemAt(transactions', q).paidAmount < ItemAt(transactions, q).paidAmount
                => \E r \in {x \in Places(transactions') : x[1] = lastOp'.tx} :
                      /\ ItemAt(transactions', r).name = ItemAt(transactions, q).name
                      /\ ItemAt(transactions', r).paidAmount
                            >= PaidBefore(transactions, r[1], ItemAt(transactions', r).id)
                               + ItemAt(transactions, q).paidAmount
                               - ItemAt(transactions', q).paidAmount
       /\ BulkStep =>
            LET batch == BulkSettleUpdates(transactions, lastOp'.who, lastOp'.amt)
            IN  \A t \in Indices(transactions) :
                    transactions'[t] = IF MapHas(batch, transactions[t].id)
                                       THEN MapGet(batch, transactions[t].id)
                                       ELSE transactions[t]
      ]_vars

\* a save whose batch held a swept transaction besides the saved one
C6_Witness == lastOp.op = "lendSave" /\ lastOp.batch = 2

----------------------------------------------------------------------------
(* Item invariants *)

\* C7: in every reachable ledger, every item's isSettled flag equals
\* (paidAmount >= amount - 0.01).
C7_SettledFlagDerived ==
    \A q \in Places(transactions) :
        ItemAt(transactions, q).isSettled
            = (ItemAt(transactions, q).paidAmount >= ItemAt(transactions, q).amount - SettledEps)

\* C8: in every reachable ledger, every item with isSettled = false has
\* dateSettled undefined.
C8_UnsettledHasNoDate ==
    \A q \in Places(transactions) :
        ~ItemAt(transactions, q).isSettled => ItemAt(transactions, q).dateSettled = Undefined

\* the items the last toggle was applied to
Toggled == {q \in Places(transactions) :
               q[1] = lastOp.tx /\ ItemAt(transactions, q).id = lastOp.id}

\* C9: after the manual toggle was applied to an item that was settled, the
\* item has isSettled = false, paidAmount = 0, no payments and dateSettled
\* undefined, whatever it had paid before.
C9_UnsettleResets ==
    (lastOp.op = "settleItem" /\ lastOp.was) =>
        \A q \in Toggled :
            /\ ~ItemAt(transactions, q).isSettled
            /\ ItemAt(transactions, q).paidAmount = 0
            /\ ItemAt(transactions, q).payments = <<>>
            /\ ItemAt(transactions, q).dateSettled = Undefined

\* an overpaid settled item was toggled
C9_Witness ==
    /\ lastOp.op = "settleItem" /\ lastOp.was
    /\ \E q \in Toggled : lastOp.amt > ItemAt(transactions, q).amount

----------------------------------------------------------------------------
(* Payment history *)

IsPrefix(s, t) == Len(s) <= Len(t) /\ \A j \in Indices(s) : t[j] = s[j]

\* the step is the manual toggle un-settling the item at place q
UnsettlesItem(q) ==
    /\ lastOp'.op = "settleItem" /\ lastOp'.was /\ opCount' = opCount + 1
    /\ lastOp'.tx = q[1] /\ lastOp'.id = ItemAt(transactions, q).id

\* the places the item at place q of the ledger has after the step
SameItemAfter(q) ==
    {r \in Places(transactions') :
        r[1] = q[1] /\ ItemAt(transactions', r).id = ItemAt(transactions, q).id}

\* C10 as the spec states it: no step other than the manual un-settle toggle
\* removes or alters a Payment record: every item that has payments is still
\* on its transaction after the step, with its earlier payments in place.
C10_PaymentsAppendOnly ==
    [][\A q \in Places(transactions) :
          (ItemAt(transactions, q).payments # <<>> /\ ~UnsettlesItem(q)) =>
              /\ SameItemAfter(q) # {}
              /\ \A r \in SameItemAfter(q) :
                    IsPrefix(ItemAt(transactions, q).payments, ItemAt(transactions', r).payments)
      ]_vars

\* C10, amended: no step other than the manual un-settle toggle alters the
\* Payment records of an item that is still on its transaction after the
\* step: its earlier payments stay in place, in order. (A split re-save that
\* drops a participant drops the item together with its payments.)
C10_PaymentsKeptWhileItemStays ==
    [][\A q \in Places(transactions) :
          ~UnsettlesItem(q) =>
              \A r \in SameItemAfter(q) :
                  IsPrefix(ItemAt(transactions, q).payments, ItemAt(transactions', r).payments)
      ]_vars

\* a split was saved again over an item that carries payments, or a bulk
\* settlement appended to an item's earlier payments
C10_Witness ==
    \/ /\ lastOp.op = "lendSave"
       /\ \E q \in Places(transactions) :
             q[1] = lastOp.tx /\ ItemAt(transactions, q).payments # <<>>
    \/ /\ lastOp.op = "bulkSettle"
       /\ \E q \in Places(transactions) : Len(ItemAt(transactions, q).payments) >= 2

----------------------------------------------------------------------------
(* Rule engine properties (RuleSpec) *)

\* C17: for every transaction and every single active rule, applying the
\* rule to its own result gives that result again.
C17_RuleIdempotent ==
    \A i \in Indices(transactions), j \in Indices(rules) :
        rules[j].isActive =>
            LET once == ApplyRulesToTransaction(transactions[i], <<rules[j]>>)
            IN  ApplyRulesToTransaction(once, <<rules[j]>>) = once

\* the one rule tests enhancedDescription, matched, and its renameTo left a
\* description it no longer matches
C17_Witness ==
    /\ lastOp.op = "runRules" /\ opCount = 1 /\ Len(rules) = 1
    /\ rules[1].criteria.field = "enhancedDescription"
    /\ IsMatch(lastOp.before[1], rules[1])
    /\ ~IsMatch(transactions[1], rules[1])
    /\ transactions[1].enhancedDescription = rules[1].actions.renameTo

\* the active rules, in list order
ActiveRules(rulesList) == SelectSeq(rulesList, LAMBDA r : r.isActive)

\* the positions of the active rules that match when their turn comes, each
\* tested on the transaction as the rules before it left it
Fired(tx, rulesList) ==
    {j \in Indices(ActiveRules(rulesList)) :
        IsMatch(ApplyRulesToTransaction(tx, SubSeq(ActiveRules(rulesList), 1, j - 1)),
                ActiveRules(rulesList)[j])}

Last(S) == CHOOSE j \in S : \A k \in S : k <= j

\* C18: only active rules are evaluated, in list order, each on the
\* transaction as earlier matching rules left it and with no short circuit:
\* the result is that of the active rules alone, and enhancedDescription and
\* category end with the value set by the last rule that matched and sets
\* that field (the transaction's own value if there is none).
C18_LastMatchingRuleWins ==
    \A i \in Indices(transactions) :
        LET tx == transactions[i]
            act == ActiveRules(rules)
            result == ApplyRulesToTransaction(tx, rules)
            renamers == {j \in Fired(tx, rules) : GetOr(act[j].actions, "renameTo", <<>>) # <<>>}
            categorizers == {j \in Fired(tx, rules) : GetOr(act[j].actions, "setCategory", "") # ""}
        IN  /\ result = ApplyRulesToTransaction(tx, act)
            /\ IF renamers = {}
               THEN /\ ("enhancedDescription" \in DOMAIN result) = ("enhancedDescription" \in DOMAIN tx)
                    /\ GetOr(result, "enhancedDescription", <<>>) = GetOr(tx, "enhancedDescription", <<>>)
               ELSE result.enhancedDescription = act[Last(renamers)].actions.renameTo
            /\ result.category = IF categorizers = {} THEN tx.category
                                 ELSE act[Last(categorizers)].actions.setCategory

\* two rules renamed the transaction in turn, the second matching only what
\* the first had written, and a switched-off rule that matches stood by
C18_Witness ==
    /\ lastOp.op = "runRules" /\ opCount = 1
    /\ LET tx == lastOp.before[1]
           act == ActiveRules(rules)
       IN  /\ \E j \in Fired(tx, rules), k \in Fired(tx, rules) :
                 /\ j < k /\ ~IsMatch(tx, act[k])
                 /\ GetOr(act[j].actions, "renameTo", <<>>) # <<>>
                 /\ GetOr(act[k].actions, "renameTo", <<>>) # <<>>
                 /\ act[j].actions.renameTo # act[k].actions.renameTo
           /\ \E m \in Indices(rules) : ~rules[m].isActive /\ IsMatch(tx, rules[m])

\* some active rule matches the transaction
SomeRuleMatches(tx, rulesList) ==
    \E j \in Indices(rulesList) : rulesList[j].isActive /\ IsMatch(tx, rulesList[j])

\* C19: when at least one active rule matches a transaction the result has
\* isReviewed = true, confidence = 100 and status = verified, whatever the
\* rule's actions; when none matches the transaction comes back unchanged.
C19_MatchForcesReviewed ==
    \A i \in Indices(transactions) :
        LET result == ApplyRulesToTransaction(transactions[i], rules)
        IN  IF SomeRuleMatches(transactions[i], rules)
            THEN result.isReviewed /\ result.confidence = 100 /\ result.status = "verified"
            ELSE result = transactions[i]

\* a rule without actions matched a transaction that needed review
C19_Witness ==
    /\ lastOp.op = "runRules" /\ opCount = 1
    /\ lastOp.before[1].status = "needs_review" /\ ~lastOp.before[1].isReviewed
    /\ transactions[1].status = "verified" /\ transactions[1].isReviewed
    /\ \A j \in Indices(rules) :
          (rules[j].isActive /\ IsMatch(lastOp.before[1], rules[j])) => DOMAIN rules[j].actions = {}

\* C20: a rule with operator greater_than or less_than on a string field
\* (originalDescription or enhancedDescription) matches no transaction.
C20_StringOrderNeverMatches ==
    \A i \in Indices(transactions), j \in Indices(rules) :
        (/\ rules[j].criteria.operator \in {"greater_than", "less_than"}
         /\ rules[j].criteria.field \in {"originalDescription", "enhancedDescription"})
        => ~IsMatch(transactions[i], rules[j])

----------------------------------------------------------------------------
(* Import properties (ImportSpec) *)

\* a step of handleTransactionsParsed, its batch, and what it added
ImportStep == lastOp'.op = "import" /\ opCount' = opCount + 1
NewTransactions == SubSeq(transactions', Len(transactions) + 1, Len(transactions'))
NewDuplicates ==
    SubSeq(potentialDuplicates', Len(potentialDuplicates) + 1, Len(potentialDuplicates'))

\* the id given to the candidate at position p of the batch
IdOf(p) == FreshId(transactions, potentialDuplicates) + p - 1

\* the candidate at position p was appended to the ledger, was made the
\* incoming side of a new duplicate pair
AcceptedAt(p) == {i \in Indices(NewTransactions) : NewTransactions[i].id = IdOf(p)}
FlaggedAt(p) == {i \in Indices(NewDuplicates) : NewDuplicates[i].incoming.id = IdOf(p)}

\* a candidate that validation drops, in the words of the validation rule
Dropped(c) ==
    \/ "date" \notin DOMAIN c
    \/ c.date = EmptyText
    \/ "amount" \notin DOMAIN c
    \/ "originalDescription" \notin DOMAIN c
    \/ c.originalDescription = EmptyText

\* the ledger positions a candidate duplicates: amount less than 0.01 away
\* and date at most one day away
Duplicated(ledger, c) ==
    {i \in Indices(ledger) :
        /\ Abs(ledger[i].amount - c.amount) < DupEps
        /\ Abs(ledger[i].date - DayNumber(c.date)) <= 1}

First(S) == CHOOSE i \in S : \A k \in S : i <= k

Mutual(c, d) ==
    /\ Abs(c.amount - d.amount) < DupEps
    /\ Abs(DayNumber(c.date) - DayNumber(d.date)) <= 1

\* C12: every duplicate pair of an import names a transaction that was in
\* the ledger before the batch, and two candidates of one batch that
\* duplicate each other but no transaction of that ledger are both accepted
\* and neither is flagged.
C12_ComparedWithLedgerBeforeBatch ==
    [][ImportStep =>
        /\ \A i \in Indices(NewDuplicates) :
              \E k \in Indices(transactions) : NewDuplicates[i].existing = transactions[k]
        /\ \A p \in Indices(lastOp'.parsed), q \in Indices(lastOp'.parsed) :
              LET c == lastOp'.parsed[p]
                  d == lastOp'.parsed[q]
              IN  (/\ p < q /\ ~Dropped(c) /\ ~Dropped(d) /\ Mutual(c, d)
                   /\ Duplicated(transactions, c) = {}
                   /\ Duplicated(transactions, d) = {})
                  => /\ AcceptedAt(p) # {} /\ AcceptedAt(q) # {}
                     /\ FlaggedAt(p) = {} /\ FlaggedAt(q) = {}
       ]_vars

\* one batch brought the same new purchase twice and both were accepted
C12_Witness ==
    /\ lastOp.op = "import" /\ opCount = 1 /\ Len(lastOp.parsed) = 2
    /\ ~Dropped(lastOp.parsed[1]) /\ ~Dropped(lastOp.parsed[2])
    /\ Mutual(lastOp.parsed[1], lastOp.parsed[2])
    /\ Len(transactions) = Len(INITIAL_TRANSACTIONS) + 2
    /\ potentialDuplicates = <<>>

\* C13: an import puts every valid candidate in exactly one place, once at
\* the end of the ledger or once as the incoming side of a new duplicate
\* pair; a flagged candidate is nowhere in the ledger; nothing else is added,
\* and the transactions and pairs that were there stay as they were.
C13_ImportPartitions ==
    [][ImportStep =>
        /\ \A p \in Indices(lastOp'.parsed) :
              ~Dropped(lastOp'.parsed[p]) =>
                 /\ Cardinality(AcceptedAt(p)) + Cardinality(FlaggedAt(p)) = 1
                 /\ FlaggedAt(p) # {} =>
                       \A i \in Indices(transactions') : transactions'[i].id # IdOf(p)
        /\ \A i \in Indices(NewTransactions) :
              \E p \in Indices(lastOp'.parsed) : i \in AcceptedAt(p)
        /\ \A i \in Indices(NewDuplicates) :
              \E p \in Indices(lastOp'.parsed) : i \in FlaggedAt(p)
        /\ SubSeq(transactions', 1, Len(transactions)) = transactions
        /\ SubSeq(potentialDuplicates', 1, Len(potentialDuplicates)) = potentialDuplicates
       ]_vars

\* a batch of two valid candidates, one accepted and one flagged
C13_Witness ==
    /\ lastOp.op = "import" /\ opCount = 1 /\ Len(lastOp.parsed) = 2
    /\ ~Dropped(lastOp.parsed[1]) /\ ~Dropped(lastOp.parsed[2])
    /\ Len(transactions) = Len(INITIAL_TRANSACTIONS) + 1
    /\ Len(potentialDuplicates) = 1
    /\ \A i \in Indices(transactions) : transactions[i].id # potentialDuplicates[1].incoming.id

\* C14: an import adds nothing for a candidate with a missing or empty
\* date, no amount, or a missing or empty originalDescription, and accepts or
\* flags every other candidate of the batch, one with amount 0 included.
C14_InvalidCandidatesDropped ==
    [][ImportStep =>
        \A p \in Indices(lastOp'.parsed) :
            IF Dropped(lastOp'.parsed[p])
            THEN AcceptedAt(p) = {} /\ FlaggedAt(p) = {}
            ELSE AcceptedAt(p) # {} \/ FlaggedAt(p) # {}
       ]_vars

\* a batch of a dropped candidate followed by one with amount 0, which was
\* accepted
C14_Witness ==
    /\ lastOp.op = "import" /\ opCount = 1 /\ Len(lastOp.parsed) = 2
    /\ Dropped(lastOp.parsed[1])
    /\ ~Dropped(lastOp.parsed[2]) /\ lastOp.parsed[2].amount = 0
    /\ Len(transactions) = Len(INITIAL_TRANSACTIONS) + 1
    /\ transactions[Len(transactions)].amount = 0
    /\ potentialDuplicates = <<>>

\* the records an import made of the candidate at position p
ImportedAt(p) ==
    {NewTransactions[i] : i \in AcceptedAt(p)}
        \cup {NewDuplicates[i].incoming : i \in FlaggedAt(p)}

C16_ViewAfterImport ==
    [][ImportStep =>
        view' = IF \/ NewDuplicates # <<>>
                   \/ \E i \in Indices(NewTransactions) :
                         NewTransactions[i].status = "needs_review"
                THEN "duplicates" ELSE "transactions"
       ]_vars

\* a batch without duplicates went to the review surface for a record that
\* needs review
C16_Witness ==
    /\ lastOp.op = "import" /\ opCount = 1
    /\ potentialDuplicates = <<>>
    /\ Len(transactions) > Len(INITIAL_TRANSACTIONS)
    /\ transactions[Len(transactions)].status = "needs_review"
    /\ view = "duplicates"

----------------------------------------------------------------------------
(* Tags (RuleSpec) *)

Range(s) == {s[i] : i \in Indices(s)}
NoRepeats(s) == \A i \in Indices(s), k \in Indices(s) : s[i] = s[k] => i = k

\* the positions of the active rules that fire on tx and have an addTags action
Taggers(tx, rulesList) ==
    {j \in Fired(tx, rulesList) : "addTags" \in DOMAIN ActiveRules(rulesList)[j].actions}

\* C21: when a matching rule with addTags has been applied, the tags of the
\* result are the tags the transaction had together with the tags of every
\* such rule, and no tag is listed twice.
C21_AddTagsIsUnion ==
    \A i \in Indices(transactions) :
        LET tx == transactions[i]
            result == ApplyRulesToTransaction(tx, rules)
        IN  Taggers(tx, rules) # {} =>
              /\ Range(result.tags) =
                    Range(tx.tags) \cup
                    UNION {Range(ActiveRules(rules)[j].actions.addTags) : j \in Taggers(tx, rules)}
              /\ NoRepeats(result.tags)

\* a rule that adds two tags, one of them already there, ran on a tagged
\* transaction: the old tag stays, once, and the new one follows it
C21_Witness ==
    /\ lastOp.op = "runRules" /\ opCount = 1 /\ Len(rules) = 1
    /\ Taggers(lastOp.before[1], rules) = {1}
    /\ lastOp.before[1].tags # <<>>
    /\ Range(lastOp.before[1].tags) \cap Range(rules[1].actions.addTags) # {}
    /\ Range(rules[1].actions.addTags) \ Range(lastOp.before[1].tags) # {}
    /\ Range(transactions[1].tags) =
          Range(lastOp.before[1].tags) \cup Range(rules[1].actions.addTags)
    /\ NoRepeats(transactions[1].tags)

----------------------------------------------------------------------------
(* Split totals *)

\* the sum of the amounts of a list of items
AmountsSum(items) == SumSeq([k \in Indices(items) |-> items[k].amount])

\* C23: after every split save, in every mode, the totalLent stored on the
\* saved transaction equals the sum of the amounts of its stored items.
C23_TotalLentIsSumOfItems ==
    [][SaveStep =>
        (HasSplit(transactions'[lastOp'.tx]) =>
            transactions'[lastOp'.tx].splitDetails.totalLent
                = AmountsSum(Items(transactions', lastOp'.tx)))
      ]_vars

----------------------------------------------------------------------------
(* Manual settle *)

\* the step is the manual toggle applied to an item that was not settled
SettleStep ==
    lastOp'.op = "settleItem" /\ ~lastOp'.was /\ opCount' = opCount + 1

\* C27: the manual toggle applied to an item with isSettled = false leaves
\* it with paidAmount = amount, isSettled = true and dateSettled the current
\* date, and with one more Payment, of amount - previous paidAmount, when
\* that difference is positive, and with the payments it had otherwise.
C27_ManualSettlePaysTheRest ==
    [][SettleStep =>
        \A k \in Indices(Items(transactions, lastOp'.tx)) :
            LET old == Items(transactions, lastOp'.tx)[k]
                new == Items(transactions', lastOp'.tx)[k]
            IN  old.id = lastOp'.id =>
                  /\ ~old.isSettled
                  /\ new.paidAmount = old.amount
                  /\ new.isSettled
                  /\ new.dateSettled = Today
                  /\ new.payments =
                        IF old.amount - old.paidAmount > 0
                        THEN Append(old.payments, [amount |-> old.amount - old.paidAmount])
                        ELSE old.payments
      ]_vars

\* an item that a bulk settlement had paid in part was settled by the
\* toggle, which recorded the rest as a second payment
C27_Witness ==
    /\ lastOp.op = "settleItem" /\ ~lastOp.was /\ lastOp.amt > 0
    /\ \E q \in Toggled :
          /\ ItemAt(transactions, q).isSettled
          /\ ItemAt(transactions, q).paidAmount = ItemAt(transactions, q).amount
          /\ Len(ItemAt(transactions, q).payments) = 2
          /\ ItemAt(transactions, q).payments[2].amount
                = ItemAt(transactions, q).amount - lastOp.amt

----------------------------------------------------------------------------
(* What a settlement leaves alone *)

\* the step is a manual toggle, settling or un-settling
ToggleStep == lastOp'.op = "settleItem" /\ opCount' = opCount + 1

\* the step keeps every transaction and every item in its place with its id,
\* name and amount, changes nothing of a transaction but its items, and
\* changes only items that Target allows
TouchesOnly(Target(_, _)) ==
    /\ Len(transactions') = Len(transactions)
    /\ \A t \in Indices(transactions) :
          /\ transactions'[t] =
                [transactions[t] EXCEPT !.splitDetails.items = Items(transactions', t)]
          /\ Len(Items(transactions', t)) = Len(Items(transactions, t))
          /\ \A k \in Indices(Items(transactions, t)) :
                LET old == Items(transactions, t)[k]
                    new == Items(transactions', t)[k]
                IN  /\ new.id = old.id /\ new.name = old.name /\ new.amount = old.amount
                    /\ new # old => Target(t, old)

\* C28: a manual toggle changes only the toggled item and a bulk settlement
\* for a person changes only items of that name; neither changes an item's
\* id, name or amount, adds or removes an item or a transaction, or changes
\* anything else of a transaction.
C28_SettlementTouchesOnlyTarget ==
    [][/\ ToggleStep => TouchesOnly(LAMBDA t, old : t = lastOp'.tx /\ old.id = lastOp'.id)
       /\ BulkStep => TouchesOnly(LAMBDA t, old : old.name = lastOp'.who)
      ]_vars

\* a bulk settlement paid one person's item on a transaction that also holds
\* an untouched item of somebody else
C28_Witness ==
    /\ lastOp.op = "bulkSettle" /\ lastOp.batch >= 1
    /\ \E q \in Places(transactions), r \in Places(transactions) :
          /\ q[1] = r[1]
          /\ ItemAt(transactions, q).name = lastOp.who
          /\ ItemAt(transactions, q).payments # <<>>
          /\ ItemAt(transactions, r).name # lastOp.who
          /\ ItemAt(transactions, r).paidAmount = 0
          /\ ItemAt(transactions, r).payments = <<>>

----------------------------------------------------------------------------
(* The ledger while no credit sweep has moved money: the steps of Next
   except the split saves that found a surplus on another transaction (such a
   save writes back the transactions it capped, so its batch is larger than 1) *)

NoSweepNext ==
    \/ opCount < MaxOps /\ \E t \in Indices(transactions), splitMode \in SplitModes :
          \E participants \in ModalForms(transactions[t], splitMode) :
              /\ Len(LendSaveUpdates(transactions, transactions[t], splitMode, participants)) = 1
              /\ HandleLendSave(t, splitMode, participants)
    \/ opCount < MaxOps /\ \E t \in Indices(transactions), k \in 1..MaxPeople :
          HandleSettleItem(t, k)
    \/ opCount < MaxOps /\ \E selected \in Names, amountToPay \in PayAmounts :
          HandleBulkSettle(selected, amountToPay)

NoSweepSpec == Init /\ [][NoSweepNext]_vars

\* C29: while no credit sweep has moved money, every item's paidAmount
\* equals the sum of the amounts of its Payment records.
C29_PaidEqualsPayments ==
    \A q \in Places(transactions) :
        ItemAt(transactions, q).paidAmount = PaymentsSum(ItemAt(transactions, q))

\* a split was saved again over an item that a payment had paid in part
C29_Witness ==
    /\ lastOp.op = "lendSave"
    /\ \E q \in Places(transactions) :
          /\ q[1] = lastOp.tx
          /\ ItemAt(transactions, q).payments # <<>>
          /\ ItemAt(transactions, q).paidAmount < ItemAt(transactions, q).amount
          /\ ItemAt(transactions, q).paidAmount = PaymentsSum(ItemAt(transactions, q))

----------------------------------------------------------------------------
(* Re-editing a split *)

\* the credit a save of transaction t sweeps for the items named person
CreditSwept(txs, t, person) ==
    SweepCreditForPerson(txs, txs[t], person, <<>>).creditFound

\* C26: when a split is saved again, every item of a participant carried
\* over from the existing split (the item of the same id) keeps its payments
\* list, and its paidAmount is the paidAmount recorded before plus the credit
\* the save swept for that participant.
C26_ResavePreservesHistory ==
    [][SaveStep =>
        \A q \in Places(transactions) :
            q[1] = lastOp'.tx =>
                \A r \in SameItemAfter(q) :
                    /\ ItemAt(transactions', r).payments = ItemAt(transactions, q).payments
                    /\ ItemAt(transactions', r).paidAmount =
                          ItemAt(transactions, q).paidAmount
                          + CreditSwept(transactions, q[1], ItemAt(transactions', r).name)
      ]_vars

\* a split was saved again over an item that carries payments and more
\* paid than it owes
C26_Witness ==
    /\ lastOp.op = "lendSave"
    /\ \E q \in Places(transactions) :
          /\ q[1] = lastOp.tx
          /\ ItemAt(transactions, q).payments # <<>>
          /\ ItemAt(transactions, q).paidAmount > ItemAt(transactions, q).amount
          /\ ItemAt(transactions, q).paidAmount = PaymentsSum(ItemAt(transactions, q))

----------------------------------------------------------------------------
(* Split modes (SplitSpec) *)

\* a step of SaveSplit, its transaction before and after, its form
SplitSaveStep == lastOp'.op = "saveSplit" /\ opCount' = opCount + 1
SavedBefore == transactions[lastOp'.tx]
SavedItems == Items(transactions', lastOp'.tx)
Form == lastOp'.participants

\* the sum of the exact amounts typed for everybody but the owner
ExactTotal(participants) ==
    SumSeq([i \in Indices(participants) |->
               IF participants[i].id # UserId THEN participants[i].amount ELSE 0])

\* C22: no split save in exact mode commits while the exact amounts of the
\* participants other than the owner sum to more than the transaction's
\* amount.
C22_OverAllocationRejected ==
    [][(SplitSaveStep /\ lastOp'.splitMode = "exact") =>
          ExactTotal(Form) <= SavedBefore.amount
      ]_vars

\* the positions of the form whose participant gets an item in equal mode,
\* in shares mode
SelectedOthers(participants) ==
    {i \in Indices(participants) : participants[i].id # UserId /\ participants[i].isSelected}
WeightedOthers(participants) ==
    {i \in Indices(participants) : participants[i].id # UserId /\ participants[i].shares > 0}

\* the participants at the positions S of the form have one item each, in
\* the form's order, and there is no other item
OneItemEach(S) ==
    /\ Len(SavedItems) = Cardinality(S)
    /\ \A i \in S :
          SavedItems[Cardinality({j \in S : j <= i})].id = Form[i].id

\* the item of the participant at position i of S
ItemOf(S, i) == SavedItems[Cardinality({j \in S : j <= i})]

\* amount is num / den to the nearest cent
NearestCent(amount, num, den) ==
    /\ amount % 10 = 0
    /\ 2 * (amount * den - num) <= 10 * den
    /\ 2 * (num - amount * den) <= 10 * den

\* C24 as the spec states it: in equal mode every selected participant
\* other than the owner gets exactly one item, of the bill amount divided by
\* the number of selected participants (the owner counted if selected), and
\* nobody else gets an item.
C24_EqualModePerHead ==
    [][(SplitSaveStep /\ lastOp'.splitMode = "equal") =>
          LET n == Cardinality({i \in Indices(Form) : Form[i].isSelected})
          IN  /\ OneItemEach(SelectedOthers(Form))
              /\ \A i \in SelectedOthers(Form) :
                    ItemOf(SelectedOthers(Form), i).amount * n = SavedBefore.amount
      ]_vars

\* C24, amended: in equal mode every selected participant other than the
\* owner gets exactly one item, of the bill amount divided by the number of
\* selected participants (the owner counted if selected) and rounded to the
\* nearest cent, and nobody else gets an item.
C24_EqualModePerHeadToTheCent ==
    [][(SplitSaveStep /\ lastOp'.splitMode = "equal") =>
          LET n == Cardinality({i \in Indices(Form) : Form[i].isSelected})
          IN  /\ OneItemEach(SelectedOthers(Form))
              /\ \A i \in SelectedOthers(Form) :
                    NearestCent(ItemOf(SelectedOthers(Form), i).amount, SavedBefore.amount, n)
      ]_vars

\* a bill was split equally between the owner and one of two others, the
\* third participant having been unselected: the one item is half the bill
C24_Witness ==
    /\ lastOp.op = "saveSplit" /\ lastOp.splitMode = "equal"
    /\ Len(lastOp.participants) = 3
    /\ lastOp.participants[1].isSelected
    /\ Cardinality(SelectedOthers(lastOp.participants)) = 1
    /\ Len(Items(transactions, lastOp.tx)) = 1
    /\ Items(transactions, lastOp.tx)[1].amount * 2 = transactions[lastOp.tx].amount
    /\ \E i \in SelectedOthers(lastOp.participants) :
          Items(transactions, lastOp.tx)[1].id = lastOp.participants[i].id

----------------------------------------------------------------------------
(* Duplicate resolution (ResolveSpec) *)

\* a step of handleDuplicateResolution, the position of its pair
ResolveStep == lastOp'.op = "resolve" /\ potentialDuplicates' # potentialDuplicates
Resolved == TargetPair(potentialDuplicates, lastOp'.id)

\* the ledger positions that hold the transaction of this id
InLedger(ledger, id) == {i \in Indices(ledger) : ledger[i].id = id}

\* the pairs but the one at position k, in order
PairsBut(pairs, k) == SubSeq(pairs, 1, k - 1) \o SubSeq(pairs, k + 1, Len(pairs))

\* C30: resolving a pending pair removes that pair and no other from the
\* pending list; Keep Both appends the pair's incoming transaction to the
\* ledger once, with status verified, and Discard leaves the ledger as it
\* is. No step other than a Keep Both puts the incoming transaction of a
\* pending pair into the ledger, so a flagged candidate is in the ledger at
\* most once, and only after Keep Both.
C30_ResolutionSettlesThePair ==
    [][/\ ResolveStep =>
            /\ Resolved # 0
            /\ potentialDuplicates' = PairsBut(potentialDuplicates, Resolved)
            /\ IF lastOp'.action = "keep_both"
               THEN /\ transactions' =
                          Append(transactions,
                                 [potentialDuplicates[Resolved].incoming
                                     EXCEPT !.status = "verified"])
                    /\ Cardinality(InLedger(transactions',
                                            potentialDuplicates[Resolved].incoming.id)) = 1
               ELSE transactions' = transactions
       /\ \A i \in Indices(potentialDuplicates) :
            LET id == potentialDuplicates[i].incoming.id
            IN  /\ InLedger(transactions, id) = {}
                /\ InLedger(transactions', id) # {} =>
                      /\ ResolveStep /\ lastOp'.action = "keep_both" /\ Resolved = i
                      /\ Cardinality(InLedger(transactions', id)) = 1
      ]_vars

\* of two pending pairs the second was kept, its incoming transaction
\* imported as needs_review, and the first then discarded: the ledger ends
\* with the kept transaction, verified, and nothing is pending
C30_Witness ==
    /\ lastOp.op = "resolve" /\ lastOp.action = "discard_incoming"
    /\ potentialDuplicates = <<>>
    /\ opCount = 1
    /\ Len(transactions) = Len(INITIAL_TRANSACTIONS) + 1
    /\ transactions[Len(transactions)].status = "verified"
    /\ transactions[Len(transactions)].id > lastOp.id
    /\ "confidence" \notin DOMAIN transactions[Len(transactions)]

====
